---- MODULE Spec2Model ----
(***************************************************************************)
(* The stock dashboard of src/app.py and src/main.py: the top-movers       *)
(* ranking (get_top_movers in both scripts, and the gain_data loop at the  *)
(* top level of app.py) and the price-series columns the chart code adds   *)
(* to the fetched history.                                                 *)
(*                                                                         *)
(* Units.  A close price is an integer number of thousandths (100000 is    *)
(* 100.000); a price rounded to 2 decimals is an integer number of         *)
(* hundredths; a percent change rounded to 2 decimals is an integer number *)
(* of hundredths of a percent (1000 is 10.00 %).  round(x, 2) is modelled  *)
(* on the exact quotient, ties to even; the binary representation error   *)
(* of the floats is not modelled.                                          *)
(***************************************************************************)
EXTENDS Integers, Sequences, FiniteSets, TLC

VARIABLES
    universe,   \* the caller's list of symbols (tickers / nifty_200)
    quotes,     \* what yf.Ticker(t).history(period="2d") gives, per symbol
    ranker,     \* which ranking code has run: "none" before any
    fetched,    \* the symbols whose history was requested, in order
    movers,     \* the rows collected by the loop (movers / gain_data)
    report,     \* the outcome: raised or (gainers, losers)
    history,    \* the frame fetch_stock_data returned: column -> values
    data,       \* the script's variable data, bound to that frame
    script,     \* which script renders the single-ticker part
    shown,      \* the sections of it that have run
    csv         \* the columns of the last "Download Stock Data (CSV)"

vars == <<universe, quotes, ranker, fetched, movers, report,
          history, data, script, shown, csv>>

rankVars == <<universe, quotes, ranker, fetched, movers, report>>
chartVars == <<history, data, script, shown, csv>>

-----------------------------------------------------------------------------
(* Bounds of the model *)

\* the longest caller list over Symbols
MaxLen == 3
\* how many entries of main.py's embedded list the model keeps
NHard == 6
\* the longest single-ticker history of the chart part
MaxBars == 3

-----------------------------------------------------------------------------
(* Symbols and quote histories *)

Symbols == {"AAA", "BBB", "CCC"}

\* the list embedded in main.py's loop
HardCoded ==
    <<"RELIANCE.NS", "TCS.NS", "INFY.NS", "HDFCBANK.NS", "ICICIBANK.NS",
      "HINDUNILVR.NS", "ITC.NS", "SBIN.NS", "BHARTIARTL.NS", "KOTAKBANK.NS">>

Min(a, b) == IF a < b THEN a ELSE b

\* the part of the embedded list the model iterates
HardList == SubSeq(HardCoded, 1, Min(NHard, Len(HardCoded)))

HardSymbols == {HardList[i] : i \in 1..Len(HardList)}

AllSymbols == Symbols \cup HardSymbols

\* a fetch either raises or returns the close prices of its bars
Raises == [ok |-> FALSE, close |-> <<>>]
Bars(c) == [ok |-> TRUE, close |-> c]

\* the fetch outcomes of a caller symbol
Outcomes ==
    { Raises,
      Bars(<<100000>>),
      Bars(<<100000, 90000>>),
      Bars(<<50000, 55000>>),
      Bars(<<90000, 100004>>),
      Bars(<<0, 50000>>),
      Bars(<<0, 0>>) }

IndexOf(s, x) == CHOOSE i \in 1..Len(s) : s[i] = x

\* the two-bar history of the i-th embedded symbol when its fetch succeeds
HardHistory(t) == Bars(<<100000, 100000 + 1000 * IndexOf(HardCoded, t)>>)

\* what the fetch of an embedded symbol gives: it raises, has one bar, or
\* has its two-bar history
FetchKinds == {"raises", "short", "bars"}

HardOutcome(t, kind) ==
    CASE kind = "raises" -> Raises
      [] kind = "short"  -> Bars(<<100000>>)
      [] OTHER           -> HardHistory(t)

ScenarioA ==
    [t \in Symbols |->
        CASE t = "AAA" -> Bars(<<100000, 90000>>)
          [] t = "BBB" -> Bars(<<50000, 55000>>)
          [] OTHER     -> Raises]

RECURSIVE SeqsUpTo(_, _)
SeqsUpTo(S, n) ==
    IF n = 0 THEN {<<>>}
    ELSE LET shorter == SeqsUpTo(S, n - 1)
         IN  shorter \cup {Append(s, x) : s \in {u \in shorter : Len(u) = n - 1}, x \in S}

-----------------------------------------------------------------------------
(* Arithmetic of the rows *)

\* n / d rounded to the nearest integer, ties to even (d > 0)
RoundHalfEven(n, d) ==
    LET q == n \div d
        r == n % d
    IN  IF 2 * r < d THEN q
        ELSE IF 2 * r > d THEN q + 1
        ELSE IF q % 2 = 0 THEN q ELSE q + 1

\* round(price, 2): thousandths to hundredths
Round2(p) == RoundHalfEven(p, 10)

Fin(v) == [k |-> "fin", v |-> v]
PosInf == [k |-> "inf", v |-> 0]
NaN == [k |-> "nan", v |-> 0]

\* the change taken relative to the last close instead of the previous one
PctChangeByLast(prev, last) ==
    IF last = 0
    THEN IF prev = 0 THEN NaN ELSE PosInf
    ELSE Fin(RoundHalfEven((last - prev) * 10000, last))

\* round(((last - prev) / prev) * 100, 2) on numpy floats: a zero divisor
\* gives inf or nan (a warning, no exception), and round keeps them
PctChange(prev, last) ==
    IF prev = 0
    THEN IF last = 0 THEN NaN ELSE PosInf
    ELSE Fin(RoundHalfEven((last - prev) * 10000, prev))

\* a < b on floats: false whenever a NaN is compared
Lt(a, b) ==
    /\ a.k # "nan"
    /\ b.k # "nan"
    /\ \/ a.k = "fin" /\ b.k = "inf"
       \/ a.k = "fin" /\ b.k = "fin" /\ a.v < b.v

IsNaN(a) == a.k = "nan"

-----------------------------------------------------------------------------
(* Frames and sorting *)

\* the list bound of head(5), tail(5), [:5] and [-5:]
TopN == 5

DfHead(df, n) == SubSeq(df, 1, Min(n, Len(df)))

\* a tail that is one row short
DfTailShort(df, n) == SubSeq(df, Len(df) - Min(n - 1, Len(df)) + 1, Len(df))

DfTail(df, n) == SubSeq(df, Len(df) - Min(n, Len(df)) + 1, Len(df))

\* a is placed strictly before b by a sort on the percent change
Before(a, b, ascending) == IF ascending THEN Lt(a, b) ELSE Lt(b, a)

\* the positions of rows that may come first among those of S
Firsts(rows, S, ascending) ==
    {i \in S : \A j \in S : ~Before(rows[j].Pct, rows[i].Pct, ascending)}

\* the orders of the positions S that a sort on the percent change may give:
\* equal keys in any order
RECURSIVE Orders(_, _, _)
Orders(rows, S, ascending) ==
    IF S = {} THEN {<<>>}
    ELSE UNION {{<<i>> \o t : t \in Orders(rows, S \ {i}, ascending)} :
                    i \in Firsts(rows, S, ascending)}

Pick(rows, order) == [i \in 1..Len(order) |-> rows[order[i]]]

\* DataFrame.sort_values(by='% Change', ascending=...): the default kind is
\* quicksort, which is not stable, so rows of equal key come in any order;
\* rows whose key is NaN are put last, in their original order.
SortValues(rows, ascending) ==
    LET nonNaN == {i \in 1..Len(rows) : ~IsNaN(rows[i].Pct)}
        nanRows == SelectSeq(rows, LAMBDA r : IsNaN(r.Pct))
    IN  {Pick(rows, o) \o nanRows : o \in Orders(rows, nonNaN, ascending)}

Reverse(a) == [i \in 1..Len(a) |-> a[Len(a) + 1 - i]]

\* count_run of CPython's list.sort: the length of the run the list starts
\* with, n items of which are known to belong to it
RECURSIVE RunLength(_, _, _)
RunLength(a, n, descending) ==
    IF n >= Len(a) THEN n
    ELSE IF descending = Lt(a[n + 1].Pct, a[n].Pct)
         THEN RunLength(a, n + 1, descending)
         ELSE n

\* binarysort's search: where the pivot goes among a[l+1..r] (l, r count
\* from 0 as in the C code)
RECURSIVE BinaryPosition(_, _, _, _)
BinaryPosition(a, pivot, l, r) ==
    IF l >= r THEN l
    ELSE LET p == l + ((r - l) \div 2)
         IN  IF Lt(pivot.Pct, a[p + 1].Pct)
             THEN BinaryPosition(a, pivot, l, p)
             ELSE BinaryPosition(a, pivot, p + 1, r)

\* binarysort: a[1..start-1] is sorted; insert a[start], a[start+1], ...
RECURSIVE BinarySort(_, _)
BinarySort(a, start) ==
    IF start > Len(a) THEN a
    ELSE LET pivot == a[start]
             l == BinaryPosition(a, pivot, 0, start - 1)
             b == SubSeq(a, 1, l) \o <<pivot>> \o SubSeq(a, l + 1, start - 1)
                    \o SubSeq(a, start + 1, Len(a))
         IN  BinarySort(b, start + 1)

\* list.sort on the keys, for a list shorter than 64 (one run, extended by
\* binary insertion; only < is used, so a NaN key compares false both ways)
ListSort(a) ==
    IF Len(a) < 2 THEN a
    ELSE LET descending == Lt(a[2].Pct, a[1].Pct)
             n == RunLength(a, 2, descending)
             run == IF descending
                    THEN Reverse(SubSeq(a, 1, n)) \o SubSeq(a, n + 1, Len(a))
                    ELSE a
         IN  BinarySort(run, n + 1)

\* sorted(gain_data, key=lambda x: x[1], reverse=True): the list is reversed,
\* sorted ascending, and reversed again, which keeps equal keys in order
SortedReverse(rows) == Reverse(ListSort(Reverse(rows)))

-----------------------------------------------------------------------------
(* The per-symbol loop *)

\* len(data) >= 2 on a fetch that did not raise
Rankable(h) == h.ok /\ Len(h.close) >= 2

PrevClose(h) == h.close[Len(h.close) - 1]
LastClose(h) == h.close[Len(h.close)]

\* the dict appended to movers by get_top_movers
MoverRow(t, h) ==
    [Ticker |-> t,
     Prev   |-> Round2(PrevClose(h)),
     Last   |-> Round2(LastClose(h)),
     Pct    |-> PctChange(PrevClose(h), LastClose(h))]

\* the tuple appended to gain_data at the top level of app.py; df['Close'][-1]
\* and [-2] on the date-indexed series are taken by position, as iloc is
GainRow(t, h) == [Ticker |-> t, Pct |-> PctChange(PrevClose(h), LastClose(h))]

\* the rows collected by get_top_movers' loop over tickers: a symbol whose
\* fetch raises (except: continue) or has fewer than 2 bars adds nothing
RECURSIVE CollectMovers(_, _)
CollectMovers(tickers, q) ==
    IF tickers = <<>> THEN <<>>
    ELSE LET t == Head(tickers)
             rest == CollectMovers(Tail(tickers), q)
         IN  IF Rankable(q[t]) THEN <<MoverRow(t, q[t])>> \o rest ELSE rest

\* the rows collected by the top-level loop of app.py over nifty_200
RECURSIVE CollectGains(_, _)
CollectGains(tickers, q) ==
    IF tickers = <<>> THEN <<>>
    ELSE LET t == Head(tickers)
             rest == CollectGains(Tail(tickers), q)
         IN  IF Rankable(q[t]) THEN <<GainRow(t, q[t])>> \o rest ELSE rest

Raised == [raised |-> TRUE, gainers |-> <<>>, losers |-> <<>>]
Returned(g, l) == [raised |-> FALSE, gainers |-> g, losers |-> l]

\* df.sort_values(descending); return df.head(5), df.tail(5).sort_values()
HeadAndTail(rows) ==
    UNION {{Returned(DfHead(df, TopN), lo) : lo \in SortValues(DfTail(df, TopN), TRUE)} :
              df \in SortValues(rows, FALSE)}

\* app.py get_top_movers after the loop: an empty movers list makes a frame
\* with no columns, and sort_values(by='% Change') raises KeyError on it
AppReports(rows) ==
    IF rows = <<>> THEN {Raised} ELSE HeadAndTail(rows)

\* main.py get_top_movers after the loop: the empty frame is returned as two
\* empty frames
MainReports(rows) ==
    IF rows = <<>> THEN {Returned(<<>>, <<>>)} ELSE HeadAndTail(rows)

\* app.py top level: sorted_gainers[:5] and sorted_gainers[-5:]
TopLevelReports(rows) ==
    LET sorted_gainers == SortedReverse(rows)
    IN  {Returned(DfHead(sorted_gainers, TopN), DfTail(sorted_gainers, TopN))}

-----------------------------------------------------------------------------
(* Initial states *)

NoReport == Returned(<<>>, <<>>)

\* a frame with no rows: data.empty
NoData == [c \in {"Open", "High", "Low", "Close", "Volume"} |-> <<>>]

\* a short caller list over Symbols, every fetch outcome for its symbols;
\* the embedded symbols have their two-bar history
InitSmall ==
    /\ universe \in SeqsUpTo(Symbols, MaxLen)
    /\ \E q \in [Symbols -> Outcomes] :
          quotes = [t \in AllSymbols |-> IF t \in Symbols THEN q[t] ELSE HardHistory(t)]

\* the caller passes nothing (as main.py does) or the embedded list itself;
\* each embedded symbol's fetch raises, is short, or gives its history
InitLarge ==
    /\ universe \in {<<>>, HardList}
    /\ \E kind \in [HardSymbols -> FetchKinds] :
          quotes = [t \in AllSymbols |->
                        IF t \in Symbols THEN ScenarioA[t] ELSE HardOutcome(t, kind[t])]

Init ==
    /\ InitSmall \/ InitLarge
    /\ ranker = "none"
    /\ fetched = <<>>
    /\ movers = <<>>
    /\ report = NoReport
    /\ history = NoData
    /\ data = NoData
    /\ script = "none"
    /\ shown = {}
    /\ csv = {}

-----------------------------------------------------------------------------
(* The ranking code *)

\* app.py: get_top_movers(tickers)
AppGetTopMovers ==
    /\ ranker = "none"
    /\ ranker' = "app.get_top_movers"
    /\ fetched' = universe
    /\ movers' = CollectMovers(universe, quotes)
    /\ report' \in AppReports(movers')
    /\ UNCHANGED <<universe, quotes>>
    /\ UNCHANGED chartVars

\* main.py: get_top_movers(tickers), which loops over the embedded list
MainGetTopMovers ==
    /\ ranker = "none"
    /\ ranker' = "main.get_top_movers"
    /\ fetched' = HardList
    /\ movers' = CollectMovers(HardList, quotes)
    /\ report' \in MainReports(movers')
    /\ UNCHANGED <<universe, quotes>>
    /\ UNCHANGED chartVars

\* app.py top level: gain_data, sorted_gainers, top_5_gainers, top_5_losers
AppTopLevel ==
    /\ ranker = "none"
    /\ ranker' = "app.top_level"
    /\ fetched' = universe
    /\ movers' = CollectGains(universe, quotes)
    /\ report' \in TopLevelReports(movers')
    /\ UNCHANGED <<universe, quotes>>
    /\ UNCHANGED chartVars

Next == AppGetTopMovers \/ MainGetTopMovers \/ AppTopLevel

Spec == Init /\ [][Next]_vars

-----------------------------------------------------------------------------
(* The single-ticker part: the columns the chart code adds to data *)

RECURSIVE GCD(_, _)
GCD(a, b) == IF b = 0 THEN a ELSE GCD(b, a % b)

Abs(x) == IF x < 0 THEN -x ELSE x

\* the float n / d, kept as a reduced fraction (d > 0)
Rat(n, d) ==
    LET g == GCD(Abs(n), d)
    IN  [k |-> "rat", n |-> n \div g, d |-> d \div g]

NaNValue == [k |-> "nan", n |-> 0, d |-> 1]

RatMul(x, y) ==
    IF x.k = "nan" \/ y.k = "nan" THEN NaNValue ELSE Rat(x.n * y.n, x.d * y.d)

RatAdd(x, y) ==
    IF x.k = "nan" \/ y.k = "nan" THEN NaNValue
    ELSE Rat(x.n * y.d + y.n * x.d, x.d * y.d)

\* Series.pct_change(): NaN first, then (c[i] - c[i-1]) / c[i-1]
PctChangeSeries(c) ==
    [i \in 1..Len(c) |-> IF i = 1 THEN NaNValue ELSE Rat(c[i] - c[i-1], c[i-1])]

\* data['Close'].pct_change() * 100
DailyReturn(c) ==
    LET r == PctChangeSeries(c)
    IN  [i \in 1..Len(c) |-> RatMul(r[i], Rat(100, 1))]

\* Series.cumprod(): a NaN entry stays NaN and is skipped by the product
RECURSIVE CumProdAt(_, _)
CumProdAt(s, i) ==
    IF i = 0 THEN Rat(1, 1)
    ELSE IF s[i].k = "nan" THEN CumProdAt(s, i - 1)
    ELSE RatMul(CumProdAt(s, i - 1), s[i])

\* (1 + data['Close'].pct_change()).cumprod() - 1
CumulativeReturn(c) ==
    LET r == PctChangeSeries(c)
        g == [i \in 1..Len(c) |-> RatAdd(Rat(1, 1), r[i])]
    IN  [i \in 1..Len(c) |->
            IF g[i].k = "nan" THEN NaNValue ELSE RatAdd(CumProdAt(g, i), Rat(-1, 1))]

RECURSIVE SumFrom(_, _, _)
SumFrom(c, lo, hi) == IF lo > hi THEN 0 ELSE c[lo] + SumFrom(c, lo + 1, hi)

\* data['Close'].rolling(window=w).mean(): NaN until w values are there
MovingAverage(c, w) ==
    [i \in 1..Len(c) |-> IF i < w THEN NaNValue ELSE Rat(SumFrom(c, i - w + 1, i), w)]

\* data[name] = values: the frame object itself gets the column
SetColumn(df, name, values) ==
    [c \in DOMAIN df \cup {name} |-> IF c = name THEN values ELSE df[c]]

\* the windows offered by the sidebar's multiselect
WindowOptions == {10, 20, 50, 100, 200}

\* f"MA{window}"
MAName(w) ==
    CASE w = 10 -> "MA10" [] w = 20 -> "MA20" [] w = 50 -> "MA50"
      [] w = 100 -> "MA100" [] OTHER -> "MA200"

\* the loop of plot_moving_averages over the selected windows
RECURSIVE AddMovingAverages(_, _)
AddMovingAverages(df, windows) ==
    IF windows = {} THEN df
    ELSE LET w == CHOOSE x \in windows : \A y \in windows : x <= y
         IN  AddMovingAverages(SetColumn(df, MAName(w), MovingAverage(df["Close"], w)),
                               windows \ {w})

\* data.empty
Empty(df) == Len(df["Close"]) = 0

\* the close prices of the single-ticker history, in thousandths
ClosePrices == {10000, 20000}

\* the frame of a history with closes c (flat bars, constant volume)
Frame(c) ==
    [col \in {"Open", "High", "Low", "Close", "Volume"} |->
        IF col = "Volume" THEN [i \in 1..Len(c) |-> 1000] ELSE c]

InitCharts ==
    /\ universe = <<>>
    /\ quotes = [t \in AllSymbols |-> Raises]
    /\ ranker = "none"
    /\ fetched = <<>>
    /\ movers = <<>>
    /\ report = NoReport
    /\ script \in {"app", "main"}
    /\ history \in {Frame(c) : c \in SeqsUpTo(ClosePrices, MaxBars)}
    /\ data = history
    /\ shown = {}
    /\ csv = {}

\* app.py: plot_daily_returns(data)
PlotDailyReturns ==
    /\ script = "app"
    /\ ~Empty(data)
    /\ shown = {}
    /\ data' = SetColumn(data, "Daily Return", DailyReturn(data["Close"]))
    /\ shown' = {"daily"}
    /\ UNCHANGED <<history, script, csv>>
    /\ UNCHANGED rankVars

\* app.py: plot_cumulative_returns(data)
PlotCumulativeReturns ==
    /\ script = "app"
    /\ shown = {"daily"}
    /\ data' = SetColumn(data, "Cumulative Return", CumulativeReturn(data["Close"]))
    /\ shown' = {"daily", "cumulative"}
    /\ UNCHANGED <<history, script, csv>>
    /\ UNCHANGED rankVars

\* app.py: plot_moving_averages(data, moving_averages), when some are selected
PlotMovingAverages ==
    /\ script = "app"
    /\ shown = {"daily", "cumulative"}
    /\ \E windows \in SUBSET WindowOptions :
          /\ windows # {}
          /\ data' = AddMovingAverages(data, windows)
    /\ shown' = {"daily", "cumulative", "averages"}
    /\ UNCHANGED <<history, script, csv>>
    /\ UNCHANGED rankVars

\* main.py: data['Daily Return'] = data['Close'].pct_change() * 100
MainDailyReturn ==
    /\ script = "main"
    /\ ~Empty(data)
    /\ shown = {}
    /\ data' = SetColumn(data, "Daily Return", DailyReturn(data["Close"]))
    /\ shown' = {"daily"}
    /\ UNCHANGED <<history, script, csv>>
    /\ UNCHANGED rankVars

\* main.py: "Download Stock Data (CSV)": csv = data.to_csv()
MainDownloadCsv ==
    /\ script = "main"
    /\ shown = {"daily"}
    /\ csv' = DOMAIN data
    /\ shown' = {"daily", "download"}
    /\ UNCHANGED <<history, data, script>>
    /\ UNCHANGED rankVars

NextCharts ==
    \/ PlotDailyReturns
    \/ PlotCumulativeReturns
    \/ PlotMovingAverages
    \/ MainDailyReturn
    \/ MainDownloadCsv

SpecCharts == InitCharts /\ [][NextCharts]_vars

-----------------------------------------------------------------------------
(* What the claims speak of *)

Ran == ranker # "none"

TickersIn(rows) == {rows[i].Ticker : i \in 1..Len(rows)}

Reported == TickersIn(report.gainers) \cup TickersIn(report.losers)

FetchedSet == {fetched[i] : i \in 1..Len(fetched)}

UniverseSet == {universe[i] : i \in 1..Len(universe)}

\* no ascent between neighbours (a NaN neighbour compares false)
NonIncreasing(rows) ==
    \A i \in 1..(Len(rows) - 1) : ~Lt(rows[i].Pct, rows[i + 1].Pct)

\* no descent between neighbours
NonDecreasing(rows) ==
    \A i \in 1..(Len(rows) - 1) : ~Lt(rows[i + 1].Pct, rows[i].Pct)

NoRepeat(s) == \A i, j \in 1..Len(s) : s[i] = s[j] => i = j

\* the symbols in ascending (string) order
SymbolOrder ==
    <<"AAA", "BBB", "BHARTIARTL.NS", "CCC", "HDFCBANK.NS", "HINDUNILVR.NS",
      "ICICIBANK.NS", "INFY.NS", "ITC.NS", "KOTAKBANK.NS", "RELIANCE.NS",
      "SBIN.NS", "TCS.NS">>

SymbolLeq(a, b) == IndexOf(SymbolOrder, a) <= IndexOf(SymbolOrder, b)

TickerSeq(rows) == [i \in 1..Len(rows) |-> rows[i].Ticker]

\* the list with every repeated symbol dropped after its first occurrence
RECURSIVE Dedupe(_)
Dedupe(s) ==
    IF s = <<>> THEN <<>>
    ELSE LET d == Dedupe(SubSeq(s, 1, Len(s) - 1))
             x == s[Len(s)]
         IN  IF \E i \in 1..Len(d) : d[i] = x THEN d ELSE Append(d, x)

\* the reports the ranking code r can give for the caller's list u
ReportsOf(r, u, q) ==
    CASE r = "app.get_top_movers"  -> AppReports(CollectMovers(u, q))
      [] r = "main.get_top_movers" -> MainReports(CollectMovers(HardList, q))
      [] OTHER                     -> TopLevelReports(CollectGains(u, q))

Arrangements(u) ==
    {[i \in 1..Len(u) |-> u[p[i]]] : p \in Permutations(1..Len(u))}

IsScenarioA ==
    /\ Len(universe) = 3
    /\ UniverseSet = Symbols
    /\ \A t \in Symbols : quotes[t] = ScenarioA[t]

RowAAA == [Ticker |-> "AAA", Prev |-> 10000, Last |-> 9000, Pct |-> Fin(-1000)]
RowBBB == [Ticker |-> "BBB", Prev |-> 5000, Last |-> 5500, Pct |-> Fin(1000)]

-----------------------------------------------------------------------------
(* The claims *)

\* C1: whichever fetches fail or are short, the ranking code completes
\* without raising; no symbol whose fetch failed or gave fewer than 2 bars
\* is in gainers or losers, and every other symbol it iterated is ranked.
C1_NoCrashOnPartialFailure ==
    Ran =>
        /\ ~report.raised
        /\ \A t \in FetchedSet :
              /\ ~Rankable(quotes[t]) => t \notin Reported
              /\ Rankable(quotes[t]) => t \in TickersIn(movers)

\* C2: in every report the gainers are non-increasing and the losers are
\* non-decreasing in percent change.
C2_OrderingInvariant ==
    (Ran /\ ~report.raised) =>
        /\ NonIncreasing(report.gainers)
        /\ NonDecreasing(report.losers)

\* C3: when no symbol yields a row, the ranking code returns a report with
\* empty gainers and empty losers and raises nothing.
C3_EmptyReport ==
    (Ran /\ movers = <<>>) =>
        /\ ~report.raised
        /\ report.gainers = <<>>
        /\ report.losers = <<>>

\* C4, as stated: in Scenario A the report is gainers = [BBB (+10.00)] and
\* losers = [AAA (-10.00)], with no error.
C4_ScenarioA_AsStated ==
    (ranker = "app.get_top_movers" /\ IsScenarioA) =>
        /\ ~report.raised
        /\ report.gainers = <<RowBBB>>
        /\ report.losers = <<RowAAA>>

\* C4, amended: in Scenario A get_top_movers of app.py returns, without an
\* error, gainers = [BBB (+10.00), AAA (-10.00)] and losers = [AAA (-10.00),
\* BBB (+10.00)]; CCC is in neither list.
C4_ScenarioA ==
    (ranker = "app.get_top_movers" /\ IsScenarioA) =>
        /\ ~report.raised
        /\ report.gainers = <<RowBBB, RowAAA>>
        /\ report.losers = <<RowAAA, RowBBB>>
        /\ "CCC" \notin Reported

C4_Witness ==
    /\ ranker = "app.get_top_movers"
    /\ universe = <<"AAA", "BBB", "CCC">>
    /\ IsScenarioA
    /\ Len(report.gainers) = 2

\* C5: a symbol whose previous close is 0 is skipped: it is in neither list,
\* no row of the report has an infinite or NaN percent change, and nothing
\* is raised.
C5_ZeroPreviousCloseSkipped ==
    (Ran /\ \E t \in FetchedSet : Rankable(quotes[t]) /\ PrevClose(quotes[t]) = 0) =>
        /\ ~report.raised
        /\ \A t \in FetchedSet :
              (Rankable(quotes[t]) /\ PrevClose(quotes[t]) = 0) => t \notin Reported
        /\ \A i \in 1..Len(report.gainers) : report.gainers[i].Pct.k = "fin"
        /\ \A i \in 1..Len(report.losers) : report.losers[i].Pct.k = "fin"

C7_UniverseFromCaller ==
    ranker \in {"app.get_top_movers", "main.get_top_movers"} =>
        /\ Reported \subseteq UniverseSet
        /\ FetchedSet \subseteq UniverseSet

\* C8: a symbol repeated in the universe is fetched once and is at most once
\* in gainers and at most once in losers, and the report is the one of the
\* list without the repetitions.
C8_DuplicatesRankedOnce ==
    (Ran /\ ~report.raised) =>
        /\ NoRepeat(fetched)
        /\ NoRepeat(TickerSeq(report.gainers))
        /\ NoRepeat(TickerSeq(report.losers))
        /\ report \in ReportsOf(ranker, Dedupe(universe), quotes)

\* C9: rows of equal percent change are in ascending symbol order in the
\* descending sort, and every order of the same universe with the same
\* quotes gives the same gainers and losers.  Stated where every collected
\* row has a finite percent change, so that the zero divisor of C5 plays no
\* part in it.
C9_OrderIndependent ==
    (/\ ranker \in {"app.get_top_movers", "app.top_level"}
     /\ ~report.raised
     /\ \A i \in 1..Len(movers) : movers[i].Pct.k = "fin") =>
        /\ \A i \in 1..(Len(report.gainers) - 1) :
              report.gainers[i].Pct = report.gainers[i + 1].Pct
                  => SymbolLeq(report.gainers[i].Ticker, report.gainers[i + 1].Ticker)
        /\ \A u \in Arrangements(universe) : ReportsOf(ranker, u, quotes) = {report}

\* C10: the chart code leaves the fetched history as it was: data has the
\* columns and values fetch_stock_data returned, and the CSV download has
\* only those columns.
C10_TransformsPure ==
    /\ data = history
    /\ shown # {} => DOMAIN data = DOMAIN history
    /\ "download" \in shown => csv = DOMAIN history

====
